---- MODULE Spec2Model ----
(***************************************************************************)
(* GraphQL-Explorer: the autocomplete resolver of the query editor         *)
(* (client/src/components/monaco-editor.tsx) and the schema loading and    *)
(* endpoint handling of the page (client/src/pages/graphql-client.tsx).    *)
(*                                                                         *)
(* Text is a sequence of characters, a character a one-character string.   *)
(* JavaScript's undefined/null of a string-valued property is <<>>.        *)
(***************************************************************************)
EXTENDS Integers, Sequences, FiniteSets, TLC

VARIABLES
    \* ---- MonacoEditor (the GraphQL query editor) ----
    value,               \* the editor's text (the page's `query` state)
    selectionStart,      \* the textarea's caret (DOM state)
    cursorPosition,      \* useState cursorPosition
    suggestions,         \* useState suggestions
    showSuggestions,     \* useState showSuggestions
    selectedSuggestion,  \* useState selectedSuggestion
    threw,               \* the most recent event handler ended in an uncaught TypeError
    \* ---- GraphQLClientPage ----
    schema,              \* useState schema (Null until a schema is installed)
    endpoints,           \* useState endpoints: sequence of [id, url]
    currentEndpointId,   \* useState currentEndpointId
    endpoint,            \* useState endpoint (the URL input)
    loadingSchema,       \* useState loadingSchema
    inflight,            \* introspection requests awaiting their response
    issued,              \* number of introspection requests issued so far
    schemaFrom,          \* history: URL the installed schema was fetched from
    schemaReq,           \* history: request number whose response set the schema
    nextId,              \* next Date.now() value used as an endpoint id
    toast,               \* title of the most recent toast ("" before the first)
    variables,           \* useState variables (the JSON text of the variables pane)
    executing,           \* executeQuery invocations awaiting their response
    loading,             \* useState loading
    response,            \* useState response: which body the response pane shows
    responseStatus,      \* useState responseStatus: the HTTP status last shown (0 for null)
    runs,                \* number of requests executeQuery has sent so far
    \* ---- documentation panel ----
    renderArg,           \* the type reference last handed to renderType
    rendered             \* what renderType returned for it

editorVars == <<value, selectionStart, cursorPosition, suggestions,
                showSuggestions, selectedSuggestion, threw>>
docsVars == <<renderArg, rendered>>
execVars == <<variables, executing, loading, response, responseStatus, runs>>
pageVars == <<endpoints, currentEndpointId, endpoint, loadingSchema, inflight,
              issued, schemaFrom, schemaReq, nextId, toast, execVars, docsVars>>
vars == <<editorVars, schema, pageVars>>

-----------------------------------------------------------------------------
(* Characters and the string primitives of JavaScript the code uses.       *)

NL == "\n"
Lower == <<"a","b","c","d","e","f","g","h","i","j","k","l","m",
           "n","o","p","q","r","s","t","u","v","w","x","y","z">>
Upper == <<"A","B","C","D","E","F","G","H","I","J","K","L","M",
           "N","O","P","Q","R","S","T","U","V","W","X","Y","Z">>
Digits == {"0","1","2","3","4","5","6","7","8","9"}
LowerSet == {Lower[i] : i \in 1..26}
UpperSet == {Upper[i] : i \in 1..26}
\* \w of a JavaScript regular expression
WordChars == LowerSet \cup UpperSet \cup Digits \cup {"_"}
\* \s of a JavaScript regular expression (the characters that occur here)
Whitespace == {" ", NL, "\t"}

LowerOf == [c \in UpperSet |-> Lower[CHOOSE i \in 1..26 : Upper[i] = c]]
ToLowerChar(c) == IF c \in UpperSet THEN LowerOf[c] ELSE c
\* String.prototype.toLowerCase
ToLowerCase(s) == [i \in 1..Len(s) |-> ToLowerChar(s[i])]

\* String.prototype.substring(a, b), 0-based, b exclusive
Substring(s, a, b) == SubSeq(s, a + 1, b)
\* String.prototype.includes
Includes(s, t) == \E i \in 0..(Len(s) - Len(t)) : SubSeq(s, i + 1, i + Len(t)) = t
\* String.prototype.startsWith
StartsWith(s, p) == Len(p) <= Len(s) /\ SubSeq(s, 1, Len(p)) = p

\* 1-based index of the first / last occurrence of character c, 0 if none
FirstIndexFrom(s, c, from) ==
    LET hits == {i \in from..Len(s) : s[i] = c}
    IN IF hits = {} THEN 0 ELSE CHOOSE i \in hits : \A j \in hits : i <= j
LastIndexOf(s, c) ==
    LET hits == {i \in 1..Len(s) : s[i] = c}
    IN IF hits = {} THEN 0 ELSE CHOOSE i \in hits : \A j \in hits : j <= i
\* (s.match(/c/g) || []).length
CountChar(s, c) == Cardinality({i \in 1..Len(s) : s[i] = c})

RECURSIVE Split(_, _)
\* String.prototype.split(c) for a one-character separator
Split(s, c) ==
    LET i == FirstIndexFrom(s, c, 1)
    IN IF i = 0 THEN <<s>>
       ELSE <<SubSeq(s, 1, i - 1)>> \o Split(SubSeq(s, i + 1, Len(s)), c)

\* beforeCursor.split('\n') and its last element
CurrentLine(beforeCursor) ==
    LET lines == Split(beforeCursor, NL) IN lines[Len(lines)]

\* String.prototype.trim
Trim(s) ==
    LET keep == {i \in 1..Len(s) : s[i] \notin Whitespace}
    IN IF keep = {} THEN <<>>
       ELSE SubSeq(s, CHOOSE i \in keep : \A j \in keep : i <= j,
                      CHOOSE i \in keep : \A j \in keep : j <= i)

\* length of the maximal run of characters of set S that ends at the end of s
TrailingRun(s, S) ==
    LET stops == {i \in 1..Len(s) : s[i] \notin S}
    IN IF stops = {} THEN Len(s)
       ELSE Len(s) - (CHOOSE i \in stops : \A j \in stops : j <= i)
\* group 1 of line.match(/\s*(\w*)$/): the word-character run that ends the line
\* (the match always succeeds, with the empty word when the line ends otherwise)
TrailingWord(line) == SubSeq(line, Len(line) - TrailingRun(line, WordChars) + 1, Len(line))

\* index of the first character at or after i that is not in S (Len(s)+1 if none)
SkipRun(s, i, S) ==
    LET stops == {j \in i..Len(s) : s[j] \notin S}
    IN IF stops = {} THEN Len(s) + 1 ELSE CHOOSE j \in stops : \A k \in stops : j <= k

RECURSIVE MatchFrom(_, _)
\* the matches of /(\w+)(?:\s*\([^)]*\))?/g from index i on: a maximal word,
\* then, if whitespace and a `(` with a later `)` follow, everything up to the
\* first `)`; the scan resumes after the match
MatchFrom(s, i) ==
    IF i > Len(s) THEN <<>>
    ELSE IF s[i] \notin WordChars THEN MatchFrom(s, i + 1)
    ELSE LET e == SkipRun(s, i, WordChars) - 1
             k == SkipRun(s, e + 1, Whitespace)
             close == IF k <= Len(s) /\ s[k] = "(" THEN FirstIndexFrom(s, ")", k + 1) ELSE 0
             mEnd == IF close > 0 THEN close ELSE e
         IN <<SubSeq(s, i, mEnd)>> \o MatchFrom(s, mEnd + 1)
\* relevantContent.match(/(\w+)(?:\s*\([^)]*\))?/g) || []
FieldMatches(s) == MatchFrom(s, 1)

\* lastField.replace(/\s*\([^)]*\)/, ''): the leftmost `(`...`)` group and the
\* whitespace before it are removed
StripArgs(m) ==
    LET p == FirstIndexFrom(m, "(", 1)
        q == IF p = 0 THEN 0 ELSE FirstIndexFrom(m, ")", p + 1)
    IN IF q = 0 THEN m
       ELSE LET head == SubSeq(m, 1, p - 1)
            IN SubSeq(head, 1, Len(head) - TrailingRun(head, Whitespace))
               \o SubSeq(m, q + 1, Len(m))

\* a comparison that puts the shorter label first
LocaleCompare_shorterFirst(a, b) ==
    IF Len(a) < Len(b) THEN -1 ELSE IF Len(a) > Len(b) THEN 1 ELSE 0

\* String.prototype.localeCompare for labels: alphabetical, letters compared
\* without regard to case first; -1, 0 or 1
CharRank(c) ==
    LET l == ToLowerChar(c)
    IN IF l \in LowerSet THEN CHOOSE i \in 1..26 : Lower[i] = l ELSE 0
LocaleCompare(a, b) ==
    LET la == ToLowerCase(a)
        lb == ToLowerCase(b)
        diff == {i \in 1..Len(la) : i > Len(lb) \/ la[i] # lb[i]}
    IN IF diff = {}
       THEN (IF Len(la) = Len(lb) THEN 0 ELSE -1)
       ELSE LET d == CHOOSE i \in diff : \A j \in diff : i <= j
            IN IF d > Len(lb) THEN 1
               ELSE IF CharRank(la[d]) < CharRank(lb[d]) THEN -1 ELSE 1

-----------------------------------------------------------------------------
(* Names.                                                                  *)

kw_query == <<"q","u","e","r","y">>
kw_mutation == <<"m","u","t","a","t","i","o","n">>
kw_subscription == <<"s","u","b","s","c","r","i","p","t","i","o","n">>
T_Query == <<"Q","u","e","r","y">>
T_Mutation == <<"M","u","t","a","t","i","o","n">>
T_Subscription == <<"S","u","b","s","c","r","i","p","t","i","o","n">>
T_Country == <<"C","o","u","n","t","r","y">>
T_Continent == <<"C","o","n","t","i","n","e","n","t">>
T_String == <<"S","t","r","i","n","g">>
T_ID == <<"I","D">>
T_Int == <<"I","n","t">>
T_Boolean == <<"B","o","o","l","e","a","n">>
Unknown == <<"U","n","k","n","o","w","n">>
f_countries == <<"c","o","u","n","t","r","i","e","s">>
f_country == <<"c","o","u","n","t","r","y">>
f_continents == <<"c","o","n","t","i","n","e","n","t","s">>
f_continent == <<"c","o","n","t","i","n","e","n","t">>
f_code == <<"c","o","d","e">>
f_name == <<"n","a","m","e">>
f_capital == <<"c","a","p","i","t","a","l">>
f_currency == <<"c","u","r","r","e","n","c","y">>
f_create == <<"c","r","e","a","t","e">>
f_reset == <<"r","e","s","e","t">>
f_events == <<"e","v","e","n","t","s">>
f_grid == <<"g","r","i","d">>

-----------------------------------------------------------------------------
(* GraphQLType used as a type reference (field.type): the chain            *)
(* kind/ofType/ofType/... is the sequence of its LIST/NON_NULL wrappers,   *)
(* outermost first, and the named type it ends in.  kind "MISSING" is the  *)
(* undefined a chain ends in when its innermost ofType was not delivered.  *)

Named(kind, name) == [wrappers |-> <<>>, kind |-> kind, name |-> name]
NonNull(t) == [t EXCEPT !.wrappers = <<"NON_NULL">> \o @]
List(t) == [t EXCEPT !.wrappers = <<"LIST">> \o @]
Undefined == [wrappers |-> <<>>, kind |-> "MISSING", name |-> <<>>]

IsUndefined(t) == t.wrappers = <<>> /\ t.kind = "MISSING"
\* type.kind and type.ofType of a reference that is not undefined
KindOf(t) == IF t.wrappers # <<>> THEN Head(t.wrappers) ELSE t.kind
OfType(t) == IF t.wrappers # <<>> THEN [t EXCEPT !.wrappers = Tail(@)] ELSE Undefined

\* levels of kind/name the TypeRef fragment of the introspection query asks for
TypeRefLevels == 8
\* a type reference as the introspection response delivers it
Delivered(t) ==
    IF Len(t.wrappers) >= TypeRefLevels
    THEN [wrappers |-> SubSeq(t.wrappers, 1, TypeRefLevels), kind |-> "MISSING", name |-> <<>>]
    ELSE t

Field(name, type, args) == [name |-> name, type |-> Delivered(type), args |-> args]
Arg(name, type) == [name |-> name, type |-> Delivered(type)]

\* an entry of schema.types; hasFields is FALSE when `fields` is null
ObjectType(name, fields) ==
    [kind |-> "OBJECT", name |-> name, hasFields |-> TRUE, fields |-> fields]
ScalarType(name) ==
    [kind |-> "SCALAR", name |-> name, hasFields |-> FALSE, fields |-> <<>>]
\* queryType / mutationType / subscriptionType of the response: { name }
RootRef(name) == [kind |-> "", name |-> name, hasFields |-> FALSE, fields |-> <<>>]
NullType == [null |-> TRUE]
Null == [null |-> TRUE]

-----------------------------------------------------------------------------
(* Introspection results (the __schema object) the endpoints serve.        *)

StringT == Named("SCALAR", T_String)
IdT == Named("SCALAR", T_ID)
CountryT == Named("OBJECT", T_Country)
ContinentT == Named("OBJECT", T_Continent)

QueryFields ==
    << Field(f_countries, List(CountryT), <<>>),
       Field(f_country, CountryT, <<Arg(f_code, NonNull(IdT))>>),
       Field(f_continents, NonNull(List(NonNull(ContinentT))), <<>>) >>
CountryFields ==
    << Field(f_code, NonNull(IdT), <<>>),
       Field(f_name, NonNull(StringT), <<>>),
       Field(f_capital, StringT, <<>>),
       Field(f_currency, StringT, <<>>),
       Field(f_continent, NonNull(ContinentT), <<>>) >>
ContinentFields ==
    << Field(f_code, NonNull(IdT), <<>>),
       Field(f_name, NonNull(StringT), <<>>),
       Field(f_countries, NonNull(List(NonNull(CountryT))), <<>>) >>
CountryTypes ==
    << ObjectType(T_Query, QueryFields),
       ObjectType(T_Country, CountryFields),
       ObjectType(T_Continent, ContinentFields),
       ScalarType(T_String), ScalarType(T_ID) >>

\* a server that declares only a query type
CountriesSchema ==
    [queryType |-> T_Query, mutationType |-> <<>>, subscriptionType |-> <<>>,
     hasTypes |-> TRUE, types |-> CountryTypes]

MutationFields ==
    << Field(f_create, CountryT, <<Arg(f_code, NonNull(IdT))>>),
       Field(f_reset, Named("SCALAR", T_Boolean), <<>>),
       Field(f_country, CountryT, <<>>) >>
SubscriptionFields == << Field(f_events, List(CountryT), <<>>) >>
\* a server that declares all three root types
FullSchema ==
    [queryType |-> T_Query, mutationType |-> T_Mutation,
     subscriptionType |-> T_Subscription, hasTypes |-> TRUE,
     types |-> CountryTypes \o << ObjectType(T_Mutation, MutationFields),
                                  ObjectType(T_Subscription, SubscriptionFields),
                                  ScalarType(T_Boolean) >>]

\* [[[[Int!]!]!]!]: 8 wrappers, one level more than the TypeRef fragment delivers
GridT == List(NonNull(List(NonNull(List(NonNull(List(NonNull(Named("SCALAR", T_Int)))))))))
DeepSchema ==
    [queryType |-> T_Query, mutationType |-> <<>>, subscriptionType |-> <<>>,
     hasTypes |-> TRUE,
     types |-> << ObjectType(T_Query, << Field(f_grid, GridT, <<>>),
                                         Field(f_name, StringT, <<>>) >>),
                  ScalarType(T_String), ScalarType(T_Int) >>]

\* the __schema object {}
EmptySchema ==
    [queryType |-> <<>>, mutationType |-> <<>>, subscriptionType |-> <<>>,
     hasTypes |-> FALSE, types |-> <<>>]
\* a __schema whose Query entry carries no kind
NoKindSchema ==
    [queryType |-> T_Query, mutationType |-> <<>>, subscriptionType |-> <<>>,
     hasTypes |-> TRUE,
     types |-> << [kind |-> "", name |-> T_Query, hasFields |-> TRUE,
                   fields |-> << Field(f_name, StringT, <<>>) >>],
                  ScalarType(T_String) >>]

Schemas == {CountriesSchema, FullSchema, DeepSchema, EmptySchema, NoKindSchema}

-----------------------------------------------------------------------------
(* The resolver.  A result is [err, ...]: err is TRUE when the JavaScript  *)
(* ends in an uncaught TypeError (a property read of undefined).           *)

RECURSIVE getTypeString(_)
\* [err, str]
getTypeString(type) ==
    IF IsUndefined(type) THEN [err |-> TRUE, str |-> <<>>]
    ELSE IF KindOf(type) = "NON_NULL"
    THEN LET r == getTypeString(OfType(type))
         IN [err |-> r.err, str |-> r.str \o <<"!">>]
    ELSE IF KindOf(type) = "LIST"
    THEN LET r == getTypeString(OfType(type))
         IN [err |-> r.err, str |-> <<"[">> \o r.str \o <<"]">>]
    ELSE [err |-> FALSE, str |-> IF type.name # <<>> THEN type.name ELSE Unknown]

\* schema.types.find(type => type.name === typeName) || null
findTypeByName(sch, typeName) ==
    LET hits == {i \in 1..Len(sch.types) : sch.types[i].name = typeName}
    IN IF hits = {} THEN NullType
       ELSE sch.types[CHOOSE i \in hits : \A j \in hits : i <= j]

\* schema.types?.find(t => t.name.toLowerCase() === 'query') || null: [err, type];
\* an entry without a name met before a match ends the call in a TypeError
findQueryLike(sch) ==
    LET hits == {i \in 1..Len(sch.types) :
                    sch.types[i].name = <<>> \/ ToLowerCase(sch.types[i].name) = kw_query}
    IN IF hits = {} THEN [err |-> FALSE, type |-> NullType]
       ELSE LET t == sch.types[CHOOSE i \in hits : \A j \in hits : i <= j]
            IN IF t.name = <<>> THEN [err |-> TRUE, type |-> NullType]
               ELSE [err |-> FALSE, type |-> t]

\* currentType?.fields is truthy
HasFields(type) == type # NullType /\ type.hasFields

\* the type a selected field leads to from cur: [err, type].  The unwrap loop
\* reads .kind of undefined when the reference ends without a named type
typeOfField(field, cur, sch) ==
    IF field.type.kind = "MISSING" THEN [err |-> TRUE, type |-> NullType]
    ELSE IF field.type.name = <<>> THEN [err |-> FALSE, type |-> cur]
    ELSE IF findTypeByName(sch, field.type.name) # NullType
    THEN [err |-> FALSE, type |-> findTypeByName(sch, field.type.name)]
    ELSE [err |-> FALSE, type |-> cur]

\* currentType.fields.find(f => f.name === fieldName) and what follows it
selectField(fieldName, cur, sch) ==
    LET hits == {k \in 1..Len(cur.fields) : cur.fields[k].name = fieldName}
    IN IF hits = {} THEN [err |-> FALSE, type |-> cur]
       ELSE typeOfField(cur.fields[CHOOSE k \in hits : \A j \in hits : k <= j], cur, sch)

\* content with everything up to its last closing brace removed
relevantContentOf(content) ==
    IF LastIndexOf(content, "}") # 0
    THEN SubSeq(content, LastIndexOf(content, "}") + 1, Len(content))
    ELSE content

\* the body of the loop over parts for one part, with its fieldMatches: [err, type]
walkPart(fieldMatches, cur, sch) ==
    IF fieldMatches # <<>> /\ HasFields(cur)
    THEN selectField(StripArgs(fieldMatches[Len(fieldMatches)]), cur, sch)
    ELSE [err |-> FALSE, type |-> cur]

RECURSIVE WalkParts(_, _, _, _)
\* the loop over parts[i..] of getContextType, entered with the result so far
WalkParts(parts, i, sofar, sch) ==
    IF sofar.err \/ i > Len(parts) THEN sofar
    ELSE WalkParts(parts, i + 1,
                   walkPart(FieldMatches(relevantContentOf(parts[i])), sofar.type, sch), sch)

\* the Query type the walk starts from: [err, type]
startType(sch) ==
    IF findTypeByName(sch, IF sch.queryType # <<>> THEN sch.queryType ELSE T_Query) # NullType
    THEN [err |-> FALSE,
          type |-> findTypeByName(sch, IF sch.queryType # <<>> THEN sch.queryType ELSE T_Query)]
    ELSE findQueryLike(sch)

\* [err, type]; type NullType is the JavaScript null
getContextType(beforeCursor, sch) ==
    IF Includes(beforeCursor, kw_mutation) /\ ~Includes(beforeCursor, kw_query)
    THEN [err |-> FALSE,
          type |-> IF sch.mutationType # <<>> THEN RootRef(sch.mutationType) ELSE NullType]
    ELSE IF Includes(beforeCursor, kw_subscription) /\ ~Includes(beforeCursor, kw_query)
    THEN [err |-> FALSE,
          type |-> IF sch.subscriptionType # <<>> THEN RootRef(sch.subscriptionType)
                   ELSE NullType]
    ELSE IF CountChar(beforeCursor, "{") = 0 THEN [err |-> FALSE, type |-> NullType]
    ELSE WalkParts(Split(beforeCursor, "{"), 2, startType(sch), sch)

Suggestion(label, detail, insertText) ==
    [label |-> label, detail |-> detail, insertText |-> insertText]

\* the operation keywords offered at the root
operationSuggestions(partial, sch) ==
    LET p == ToLowerCase(partial)
    IN (IF StartsWith(kw_query, p)
        THEN <<Suggestion(kw_query, <<>>, kw_query \o <<" ", "{", NL, " ", " ">>)>>
        ELSE <<>>)
       \o
       (IF StartsWith(kw_mutation, p) /\ sch.mutationType # <<>>
        THEN <<Suggestion(kw_mutation, <<>>, kw_mutation \o <<" ", "{", NL, " ", " ">>)>>
        ELSE <<>>)
       \o
       (IF StartsWith(kw_subscription, p) /\ sch.subscriptionType # <<>>
        THEN <<Suggestion(kw_subscription, <<>>, kw_subscription \o <<" ", "{", NL, " ", " ">>)>>
        ELSE <<>>)

\* field.type.kind === 'OBJECT' || (NON_NULL or LIST directly around an OBJECT)
hasComplexType(field) ==
    LET t == field.type
    IN \/ KindOf(t) = "OBJECT"
       \/ KindOf(t) = "NON_NULL" /\ KindOf(OfType(t)) = "OBJECT"
       \/ KindOf(t) = "LIST" /\ KindOf(OfType(t)) = "OBJECT"

\* insertTextOf with its two tests in the other order
insertTextOf_complexFirst(field) ==
    IF hasComplexType(field) THEN field.name \o <<" ", "{">>
    ELSE IF Len(field.args) > 0 THEN field.name \o <<"(">>
    ELSE field.name

\* the text a field suggestion inserts
insertTextOf(field) ==
    IF Len(field.args) > 0 THEN field.name \o <<"(">>
    ELSE IF hasComplexType(field) THEN field.name \o <<" ", "{">>
    ELSE field.name

\* fieldMatchesPartial that keeps only the names that start with the partial
fieldMatchesPartial_prefixOnly(field, partial) ==
    StartsWith(ToLowerCase(field.name), ToLowerCase(partial))

\* the filter of the field suggestions
fieldMatchesPartial(field, partial) ==
    Includes(ToLowerCase(field.name), ToLowerCase(partial))

\* the comparator of suggestions.sort: negative when a sorts before b
compareSuggestions(a, b, partial) ==
    LET aStarts == StartsWith(ToLowerCase(a.label), ToLowerCase(partial))
        bStarts == StartsWith(ToLowerCase(b.label), ToLowerCase(partial))
    IN IF aStarts /\ ~bStarts THEN -1
       ELSE IF ~aStarts /\ bStarts THEN 1
       ELSE LocaleCompare(a.label, b.label)

RECURSIVE SortSuggestions(_, _)
\* Array.prototype.sort (stable) with compareSuggestions
SortSuggestions(items, partial) ==
    IF Len(items) <= 1 THEN items
    ELSE LET n == Len(items)
             x == items[n]
             rest == SortSuggestions(SubSeq(items, 1, n - 1), partial)
             after == {i \in 1..Len(rest) : compareSuggestions(x, rest[i], partial) < 0}
             pos == IF after = {} THEN Len(rest) + 1
                    ELSE CHOOSE i \in after : \A j \in after : i <= j
         IN SubSeq(rest, 1, pos - 1) \o <<x>> \o SubSeq(rest, pos, Len(rest))

\* filter, map and sort of the field suggestions: [err, items]
fieldSuggestions(currentType, partial) ==
    LET matching == SelectSeq(currentType.fields, LAMBDA f : fieldMatchesPartial(f, partial))
        broken == \E i \in 1..Len(matching) : getTypeString(matching[i].type).err
        mapped == [i \in 1..Len(matching) |->
                     Suggestion(matching[i].name, getTypeString(matching[i].type).str,
                                insertTextOf(matching[i]))]
    IN IF broken THEN [err |-> TRUE, items |-> <<>>]
       ELSE [err |-> FALSE, items |-> SortSuggestions(mapped, partial)]

\* getSuggestions after const currentType = getContextType(): [err, items]
suggestionsIn(ctx, beforeCursor, sch) ==
    IF ctx.err THEN [err |-> TRUE, items |-> <<>>]
    ELSE IF CountChar(beforeCursor, "{") = 0
    THEN [err |-> FALSE,
          items |-> operationSuggestions(Trim(CurrentLine(beforeCursor)), sch)]
    ELSE IF ~HasFields(ctx.type) THEN [err |-> FALSE, items |-> <<>>]
    ELSE fieldSuggestions(ctx.type, TrailingWord(CurrentLine(beforeCursor)))

\* getSuggestions without its `if (!schema) return []`: the first read of a
\* property of the null schema is a TypeError
getSuggestions_noSchemaGuard(text, position, sch) ==
    IF sch = Null THEN [err |-> TRUE, items |-> <<>>]
    ELSE suggestionsIn(getContextType(Substring(text, 0, position), sch),
                       Substring(text, 0, position), sch)

\* getSuggestions that answers from the dropdown's state once an entry other
\* than the first is selected
getSuggestions_fromDropdown(text, position, sch) ==
    IF sch = Null THEN [err |-> FALSE, items |-> <<>>]
    ELSE IF selectedSuggestion > 0 THEN [err |-> FALSE, items |-> <<>>]
    ELSE suggestionsIn(getContextType(Substring(text, 0, position), sch),
                       Substring(text, 0, position), sch)

\* getSuggestions of the GraphQL editor (language === 'graphql'): [err, items]
getSuggestions(text, position, sch) ==
    IF sch = Null THEN [err |-> FALSE, items |-> <<>>]
    ELSE suggestionsIn(getContextType(Substring(text, 0, position), sch),
                       Substring(text, 0, position), sch)

-----------------------------------------------------------------------------
(* The documents the user types.  Typing happens at the end of the text,   *)
(* one character at a time, along one of these documents.                  *)

Indent1 == <<NL, " ", " ">>
Indent2 == <<NL, " ", " ", " ", " ">>
OpenQuery == kw_query \o <<" ", "{">> \o Indent1
\* the page's initial `query`
DefaultQuery ==
    OpenQuery \o f_countries \o <<" ", "{">> \o Indent2 \o f_code \o Indent2 \o f_name
    \o Indent2 \o f_capital \o Indent2 \o f_currency \o Indent1 \o <<"}", NL, "}">>
Doc_nested == OpenQuery \o f_countries \o <<" ", "{">> \o Indent2 \o f_capital
Doc_args ==
    OpenQuery \o f_country \o <<"(">> \o f_code \o <<":", " ", "\"", "J", "P", "\"", ")", " ", "{">>
    \o Indent2 \o f_name
Doc_mutation == kw_mutation \o <<" ", "{">> \o Indent1 \o f_create \o <<"(">>
Doc_mutation_nested ==
    kw_mutation \o <<" ", "{">> \o Indent1 \o f_country \o <<" ", "{">> \o Indent2 \o <<"c", "a">>
Doc_upper == <<"M", "u", "t">>
Doc_subscription == kw_subscription \o <<" ", "{">> \o Indent1 \o <<"e", "v">>
Doc_closed ==
    kw_query \o <<" ", "{", " ">> \o f_countries \o <<" ", "{", " ">> \o f_name
    \o <<" ", "}", " ", "c", "a", "p">>
Doc_second == <<"{", " ">> \o f_name \o <<" ", "}", NL, "q">>
Doc_grid == OpenQuery \o f_grid \o <<" ", "{">>
\* an argument whose value is an input-object literal
Doc_input ==
    OpenQuery \o f_country \o <<"(">> \o f_code \o <<":", " ", "{", "a", ":", "1", "}", ")", " ", "{">>
    \o Indent2 \o <<"c">>
Documents == {DefaultQuery, Doc_nested, Doc_args, Doc_mutation, Doc_mutation_nested, Doc_upper,
              Doc_subscription, Doc_closed, Doc_second, Doc_grid, Doc_input}

\* text is a prefix of one of the documents
InDocuments(text) == \E d \in Documents : StartsWith(d, text)
\* the characters the user may type after text
NextChars(text) ==
    {d[Len(text) + 1] : d \in {e \in Documents : Len(e) > Len(text) /\ StartsWith(e, text)}}

\* accepting a suggestion does not grow the text beyond this length
MaxTextLen == 40

-----------------------------------------------------------------------------
(* MonacoEditor: the event handlers of the GraphQL query editor.           *)

\* triggerSuggestions(text, position); a TypeError of getSuggestions leaves the
\* three states as they were
triggerSuggestions(text, position) ==
    LET newSuggestions == getSuggestions(text, position, schema)
    IN IF newSuggestions.err
       THEN /\ threw' = TRUE
            /\ UNCHANGED <<suggestions, showSuggestions, selectedSuggestion>>
       ELSE /\ suggestions' = newSuggestions.items
            /\ showSuggestions' = (Len(newSuggestions.items) > 0)
            /\ selectedSuggestion' = 0
            /\ threw' = FALSE

\* handleInputChange with e.target.value = newValue, e.target.selectionStart = position
handleInputChange(newValue, position) ==
    /\ value' = newValue
    /\ cursorPosition' = position
    /\ selectionStart' = position
    /\ LET beforeCursor == Substring(newValue, 0, position)
           currentLine == CurrentLine(beforeCursor)
           hasLastChar == position >= 1 /\ position <= Len(newValue)
           lastChar == newValue[position]
       IN IF schema # Null
          THEN IF hasLastChar /\ (lastChar \in LowerSet \cup UpperSet \/ lastChar = "{" \/ lastChar = " ")
               THEN triggerSuggestions(newValue, position)
               ELSE IF TrailingRun(currentLine, WordChars) > 0
               THEN triggerSuggestions(newValue, position)
               ELSE /\ showSuggestions' = FALSE
                    /\ threw' = FALSE
                    /\ UNCHANGED <<suggestions, selectedSuggestion>>
          ELSE /\ showSuggestions' = FALSE
               /\ threw' = FALSE
               /\ UNCHANGED <<suggestions, selectedSuggestion>>
    /\ UNCHANGED <<schema, pageVars>>

\* the user types character c at the caret
TypeChar ==
    \E c \in NextChars(value) :
        /\ selectionStart = Len(value)
        /\ handleInputChange(Append(value, c), selectionStart + 1)

\* the user deletes the character before the caret
Backspace ==
    /\ selectionStart = Len(value)
    /\ selectionStart > 0
    /\ handleInputChange(SubSeq(value, 1, Len(value) - 1), selectionStart - 1)

\* the user selects everything and deletes it
ClearAll ==
    /\ value # <<>>
    /\ handleInputChange(<<>>, 0)

\* the dropdown is rendered
DropdownOpen == showSuggestions /\ Len(suggestions) > 0

\* applySuggestion that inserts at the offset and keeps the word in progress
applySuggestion_keepsWord(text, position, suggestion) ==
    [newValue |-> Substring(text, 0, position) \o suggestion.insertText
                  \o SubSeq(text, position + 1, Len(text)),
     newCursorPosition |-> position + Len(suggestion.insertText)]

\* the replacement of the word in progress by suggestion.insertText:
\* [newValue, newCursorPosition]
applySuggestion(text, position, suggestion) ==
    LET beforeCursor == Substring(text, 0, position)
        afterCursor == SubSeq(text, position + 1, Len(text))
        wordStart == position - TrailingRun(beforeCursor, WordChars)
    IN [newValue |-> Substring(text, 0, wordStart) \o suggestion.insertText \o afterCursor,
        newCursorPosition |-> wordStart + Len(suggestion.insertText)]

\* Tab / Enter with the dropdown open, and a click on entry i of the dropdown
AcceptSuggestion(i) ==
    /\ DropdownOpen
    /\ i \in 1..Len(suggestions)
    /\ LET r == applySuggestion(value, cursorPosition, suggestions[i])
       IN /\ Len(r.newValue) <= MaxTextLen
          /\ value' = r.newValue
          /\ selectionStart' = r.newCursorPosition
    /\ showSuggestions' = FALSE
    /\ threw' = FALSE
    /\ UNCHANGED <<cursorPosition, suggestions, selectedSuggestion, schema, pageVars>>

\* handleKeyDown, key Enter, dropdown closed: newline and indentation
KeyEnterNewline ==
    /\ ~DropdownOpen
    /\ LET position == selectionStart
           beforeCursor == Substring(value, 0, position)
           afterCursor == SubSeq(value, position + 1, Len(value))
           currentLine == CurrentLine(beforeCursor)
           currentIndent == SubSeq(currentLine, 1, SkipRun(currentLine, 1, Whitespace) - 1)
           trimmedLine == Trim(currentLine)
           opens == trimmedLine # <<>> /\ trimmedLine[Len(trimmedLine)] = "{"
           newIndent == IF opens THEN currentIndent \o <<" ", " ">> ELSE currentIndent
           shouldAddClosingBrace == afterCursor # <<>> /\ afterCursor[1] = "}"
           closing == shouldAddClosingBrace /\ Len(newIndent) > Len(currentIndent)
           insertText == IF closing THEN <<NL>> \o newIndent \o <<NL>> \o currentIndent
                         ELSE <<NL>> \o newIndent
           newCursorPosition == IF closing THEN position + Len(newIndent) + 1
                                ELSE position + Len(insertText)
           newValue == beforeCursor \o insertText \o afterCursor
       IN /\ InDocuments(newValue)
          /\ value' = newValue
          /\ selectionStart' = newCursorPosition
    /\ threw' = FALSE
    /\ UNCHANGED <<cursorPosition, suggestions, showSuggestions, selectedSuggestion,
                   schema, pageVars>>

\* handleKeyDown, key Tab, dropdown closed, no selection: two spaces
KeyTabIndent ==
    /\ ~DropdownOpen
    /\ LET start == selectionStart
           newValue == Substring(value, 0, start) \o <<" ", " ">>
                       \o SubSeq(value, start + 1, Len(value))
       IN /\ InDocuments(newValue)
          /\ value' = newValue
          /\ selectionStart' = start + 2
    /\ threw' = FALSE
    /\ UNCHANGED <<cursorPosition, suggestions, showSuggestions, selectedSuggestion,
                   schema, pageVars>>

\* KeyArrowDown that does not wrap around at the last suggestion
KeyArrowDown_noWrap ==
    /\ DropdownOpen
    /\ selectedSuggestion' = selectedSuggestion + 1
    /\ threw' = FALSE
    /\ UNCHANGED <<value, selectionStart, cursorPosition, suggestions, showSuggestions,
                   schema, pageVars>>

\* handleKeyDown, key ArrowDown, dropdown open
KeyArrowDown ==
    /\ DropdownOpen
    /\ selectedSuggestion' = (selectedSuggestion + 1) % Len(suggestions)
    /\ threw' = FALSE
    /\ UNCHANGED <<value, selectionStart, cursorPosition, suggestions, showSuggestions,
                   schema, pageVars>>

\* handleKeyDown, key ArrowUp, dropdown open
KeyArrowUp ==
    /\ DropdownOpen
    /\ selectedSuggestion' = (selectedSuggestion - 1 + Len(suggestions)) % Len(suggestions)
    /\ threw' = FALSE
    /\ UNCHANGED <<value, selectionStart, cursorPosition, suggestions, showSuggestions,
                   schema, pageVars>>

\* handleKeyDown, key Tab or Enter, dropdown open
KeyAccept == AcceptSuggestion(selectedSuggestion + 1)

\* handleSuggestionClick
SuggestionClick == \E i \in 1..Len(suggestions) : AcceptSuggestion(i)

\* handleKeyDown, key Escape with the dropdown open, and handleClickOutside
CloseDropdown ==
    /\ showSuggestions
    /\ showSuggestions' = FALSE
    /\ threw' = FALSE
    /\ UNCHANGED <<value, selectionStart, cursorPosition, suggestions, selectedSuggestion,
                   schema, pageVars>>

\* characters the caret is moved away from the offset of the last input event
MaxCaretMoves == 1

\* handleKeyDown, key ArrowLeft with the dropdown open (or a click into the
\* text): no case of the switch applies, the textarea moves its caret
CaretLeft ==
    /\ DropdownOpen
    /\ selectionStart > 0
    /\ cursorPosition - selectionStart < MaxCaretMoves
    /\ selectionStart' = selectionStart - 1
    /\ threw' = FALSE
    /\ UNCHANGED <<value, cursorPosition, suggestions, showSuggestions, selectedSuggestion,
                   schema, pageVars>>

\* handleKeyDown, key ArrowRight with the dropdown open
CaretRight ==
    /\ DropdownOpen
    /\ selectionStart < cursorPosition
    /\ selectionStart' = selectionStart + 1
    /\ threw' = FALSE
    /\ UNCHANGED <<value, cursorPosition, suggestions, showSuggestions, selectedSuggestion,
                   schema, pageVars>>

\* the page hands the editor the schema it installed (setSchema of fetchSchema).
\* Only the first installation is followed: a later one changes `schema` alike
\* and leaves the editor's own state as it is
SchemaInstalled ==
    \E s \in Schemas :
        /\ schema = Null
        /\ schema' = s
        /\ UNCHANGED <<editorVars, pageVars>>

-----------------------------------------------------------------------------
(* GraphQLClientPage: endpoints and the loading of the schema.             *)
(* An endpoint id is a number, 0 standing for 'default'; a URL is a string.*)

U_countries == "https://countries.trevorblades.com/"
U_full == "https://full.example/graphql"
U_empty == "https://empty.example/graphql"
U_errors == "https://errors.example/graphql"
\* the URLs the user enters
Urls == {U_countries, U_full, U_empty, U_errors}

\* what the server at url answers to the introspection query
Serve(url) ==
    CASE url = U_countries -> [kind |-> "data", schema |-> CountriesSchema]
      [] url = U_full -> [kind |-> "data", schema |-> FullSchema]
      [] url = U_empty -> [kind |-> "data", schema |-> EmptySchema]
      [] OTHER -> [kind |-> "errors", schema |-> Null]
\* a request may also fail in transport, or be answered without data.__schema
Responses(url) ==
    {Serve(url), [kind |-> "reject", schema |-> Null], [kind |-> "nodata", schema |-> Null]}

\* bounds of the page: endpoints in the list, endpoints ever added, requests issued
MaxEndpoints == 2
MaxAdded == 2
MaxRequests == 3

\* the header every endpoint starts with
DefaultHeaders == <<[key |-> "Content-Type", value |-> "application/json"]>>
DefaultName == "Countries API"
\* the name typed into the Add Endpoint form
NewEndpointName == "Staging API"

\* an EndpointConfig; lastUsed (a clock reading no handler reads) is left out
EndpointConfig(id, name, url, history) ==
    [id |-> id, name |-> name, url |-> url, headers |-> DefaultHeaders, history |-> history]

\* const currentEndpoint = endpoints.find(ep => ep.id === currentEndpointId) || endpoints[0]
currentEndpointOf(eps, id) ==
    LET hits == {i \in 1..Len(eps) : eps[i].id = id}
    IN IF hits = {} THEN eps[1] ELSE eps[CHOOSE i \in hits : \A j \in hits : i <= j]

\* updateCurrentEndpoint({ url }): the new value of endpoints
updateCurrentEndpoint(url) ==
    [i \in 1..Len(endpoints) |->
        IF endpoints[i].id = currentEndpointId THEN [endpoints[i] EXCEPT !.url = url]
        ELSE endpoints[i]]

\* fetchSchema up to its await, called by the auto-load effect when `fetch` holds
\* (endpoint or fetchSchema changed and endpoint.trim() !== '')
fetchSchema(fetch, url) ==
    IF fetch /\ url # ""
    THEN /\ issued < MaxRequests
         /\ loadingSchema' = TRUE
         /\ issued' = issued + 1
         /\ inflight' = inflight \cup {[n |-> issued + 1, url |-> url]}
    ELSE UNCHANGED <<loadingSchema, issued, inflight>>

\* the URL input's onChange with value v, and the effects that follow
EditUrl ==
    \E v \in Urls \cup {""} :
        /\ v # endpoint
        /\ endpoint' = v
        /\ endpoints' = updateCurrentEndpoint(v)
        /\ fetchSchema(TRUE, v)
        /\ UNCHANGED <<currentEndpointId, nextId, schema, schemaFrom, schemaReq, toast,
                       editorVars, docsVars, execVars>>

\* switchToEndpoint(id) from the endpoint selector, and the effects that follow
switchToEndpoint ==
    \E i \in 1..Len(endpoints) :
        LET id == endpoints[i].id
        IN /\ id # currentEndpointId
           /\ currentEndpointId' = id
           /\ endpoint' = currentEndpointOf(endpoints, id).url
           /\ fetchSchema(TRUE, endpoint')
           /\ UNCHANGED <<endpoints, nextId, schema, schemaFrom, schemaReq, toast,
                          editorVars, docsVars, execVars>>

\* addEndpoint(name, url) with a non-blank name and url, and the effects that follow
addEndpoint ==
    \E url \in Urls :
        /\ Len(endpoints) < MaxEndpoints
        /\ nextId <= MaxAdded
        /\ endpoints' = Append(endpoints, EndpointConfig(nextId, NewEndpointName, url, <<>>))
        /\ currentEndpointId' = nextId
        /\ nextId' = nextId + 1
        /\ endpoint' = url
        /\ toast' = "Endpoint Added"
        /\ fetchSchema(TRUE, url)
        /\ UNCHANGED <<schema, schemaFrom, schemaReq, editorVars, docsVars, execVars>>

\* removeEndpoint that leaves currentEndpointId as it is
removeEndpoint_keepsCurrent ==
    \E i \in 1..Len(endpoints) :
        LET id == endpoints[i].id
            remaining == SelectSeq(endpoints, LAMBDA ep : ep.id # id)
        IN /\ Len(endpoints) > 1
           /\ endpoints' = remaining
           /\ UNCHANGED <<currentEndpointId, endpoint>>
           /\ fetchSchema(FALSE, endpoint)
           /\ UNCHANGED <<nextId, schema, schemaFrom, schemaReq, toast,
                          editorVars, docsVars, execVars>>

\* removeEndpoint(id), and the effects that follow
removeEndpoint ==
    \E i \in 1..Len(endpoints) :
        LET id == endpoints[i].id
            remaining == SelectSeq(endpoints, LAMBDA ep : ep.id # id)
        IN /\ Len(endpoints) > 1
           /\ endpoints' = remaining
           /\ IF currentEndpointId = id
              THEN /\ currentEndpointId' = remaining[1].id
                   /\ endpoint' = remaining[1].url
                   /\ fetchSchema(TRUE, remaining[1].url)
              ELSE /\ UNCHANGED <<currentEndpointId, endpoint>>
                   /\ fetchSchema(FALSE, endpoint)
           /\ UNCHANGED <<nextId, schema, schemaFrom, schemaReq, toast,
                          editorVars, docsVars, execVars>>

\* the Docs button, enabled while no schema is loading: fetches when no schema is set
DocsButton ==
    /\ ~loadingSchema
    /\ schema = Null
    /\ endpoint # ""
    /\ fetchSchema(TRUE, endpoint)
    /\ UNCHANGED <<endpoints, currentEndpointId, endpoint, nextId, schema, schemaFrom,
                   schemaReq, toast, editorVars, docsVars, execVars>>

\* SchemaResponse with a catch block that also drops the schema
SchemaResponse_dropsOnFailure ==
    \E r \in inflight : \E resp \in Responses(r.url) :
        /\ inflight' = inflight \ {r}
        /\ loadingSchema' = FALSE
        /\ IF resp.kind = "data"
           THEN /\ schema' = resp.schema
                /\ schemaFrom' = r.url
                /\ schemaReq' = r.n
                /\ toast' = "Schema Loaded"
           ELSE /\ toast' = "Schema Error"
                /\ schema' = Null
                /\ UNCHANGED <<schemaFrom, schemaReq>>
        /\ UNCHANGED <<endpoints, currentEndpointId, endpoint, issued, nextId,
                       editorVars, docsVars, execVars>>

\* fetchSchema from its await on: the response to request r arrives
SchemaResponse ==
    \E r \in inflight : \E resp \in Responses(r.url) :
        /\ inflight' = inflight \ {r}
        /\ loadingSchema' = FALSE
        /\ IF resp.kind = "data"
           THEN /\ schema' = resp.schema
                /\ schemaFrom' = r.url
                /\ schemaReq' = r.n
                /\ toast' = "Schema Loaded"
           ELSE /\ toast' = "Schema Error"
                /\ UNCHANGED <<schema, schemaFrom, schemaReq>>
        /\ UNCHANGED <<endpoints, currentEndpointId, endpoint, issued, nextId,
                       editorVars, docsVars, execVars>>

-----------------------------------------------------------------------------
(* GraphQLClientPage: headers, variables, execution and the query history. *)

\* texts of the variables pane: the initial one, a blank one and one that is
\* not JSON
V_default == <<"{", "}">>
V_blank == <<" ">>
V_broken == <<"{">>
VariablesTexts == {V_default, V_blank, V_broken}

\* JSON.parse(text) returns, for the texts of the variables pane
JSONparses(text) == text = V_default

\* the HTTP statuses the server answers with
Statuses == {200, 299, 300}
\* what client.execute ends in: a response with a status, its body with or
\* without `errors`, or a rejection (transport failure)
ExecutionOutcomes ==
    {[kind |-> "response", status |-> st, errors |-> e] : st \in Statuses, e \in BOOLEAN}
        \cup {[kind |-> "reject", status |-> 0, errors |-> FALSE]}

\* what the response pane shows: the body of a response without or with
\* `errors`, or the message of the exception executeQuery caught
R_data == "{ data }"
R_errors == "{ errors }"
R_error == "{ error }"

\* .slice(0, 50) in addToHistory
HistoryCap == 50
\* bounds: requests executeQuery sends, headers of an endpoint
MaxRuns == 1
MaxHeaders == 1
\* what the user types into a header field
HeaderTexts == {"Authorization"}

\* a QueryHistory entry; id and timestamp (clock readings) and name (shown
\* only) are left out
HistoryItem(q, v, url) == [query |-> q, variables |-> v, endpoint |-> url]

\* the history localStorage holds after n executions of n different queries,
\* newest first
DigitChars == <<"0", "1", "2", "3", "4", "5", "6", "7", "8", "9">>
SavedQuery(k) ==
    <<"{", " ", "f", DigitChars[(k \div 10) + 1], DigitChars[(k % 10) + 1], " ", "}">>
SavedHistory(n) == [k \in 1..n |-> HistoryItem(SavedQuery(n + 1 - k), V_default, U_countries)]
SavedLengths == {0, HistoryCap - 1, HistoryCap}

currentEndpoint == currentEndpointOf(endpoints, currentEndpointId)
\* useState headers: the sync effect and the header handlers keep it equal to
\* the headers of the current endpoint
headers == currentEndpoint.headers

\* setEndpoints(prev => prev.map(ep => ep.id === id ? { ...ep, [field]: v } : ep))
updateEndpointField(eps, id, field, v) ==
    [i \in 1..Len(eps) |->
        IF eps[i].id = id THEN [eps[i] EXCEPT ![field] = v] ELSE eps[i]]

\* addToHistory without the filter that removes the entry of the same triple
addToHistory_noFilter(q, v, url, history) ==
    LET all == <<HistoryItem(q, v, url)>> \o history
    IN SubSeq(all, 1, IF Len(all) < HistoryCap THEN Len(all) ELSE HistoryCap)

\* addToHistory without the cap
addToHistory_uncapped(q, v, url, history) ==
    <<HistoryItem(q, v, url)>> \o
        SelectSeq(history, LAMBDA item :
            ~(item.query = q /\ item.variables = v /\ item.endpoint = url))

\* addToHistory(query, variables, endpoint): the new history, from the history
\* its closure holds
addToHistory(q, v, url, history) ==
    LET all == <<HistoryItem(q, v, url)>> \o
                   SelectSeq(history, LAMBDA item :
                       ~(item.query = q /\ item.variables = v /\ item.endpoint = url))
    IN SubSeq(all, 1, IF Len(all) < HistoryCap THEN Len(all) ELSE HistoryCap)

\* addHeader, and the effects that follow (fetchSchema depends on headers)
addHeader ==
    /\ Len(headers) < MaxHeaders
    /\ endpoints' = updateEndpointField(endpoints, currentEndpointId, "headers",
                                        Append(headers, [key |-> "", value |-> ""]))
    /\ fetchSchema(TRUE, endpoint)
    /\ UNCHANGED <<currentEndpointId, endpoint, nextId, schema, schemaFrom, schemaReq,
                   toast, editorVars, docsVars, execVars>>

\* removeHeader(index), and the effects that follow
removeHeader ==
    \E index \in 1..Len(headers) :
        /\ endpoints' = updateEndpointField(endpoints, currentEndpointId, "headers",
               [i \in 1..(Len(headers) - 1) |->
                   IF i < index THEN headers[i] ELSE headers[i + 1]])
        /\ fetchSchema(TRUE, endpoint)
        /\ UNCHANGED <<currentEndpointId, endpoint, nextId, schema, schemaFrom, schemaReq,
                       toast, editorVars, docsVars, execVars>>

\* updateHeader(index, field, value), and the effects that follow
updateHeader ==
    \E index \in 1..Len(headers) : \E field \in {"key", "value"} : \E v \in HeaderTexts :
        /\ headers[index][field] # v
        /\ endpoints' = updateEndpointField(endpoints, currentEndpointId, "headers",
               [headers EXCEPT ![index] = [headers[index] EXCEPT ![field] = v]])
        /\ fetchSchema(TRUE, endpoint)
        /\ UNCHANGED <<currentEndpointId, endpoint, nextId, schema, schemaFrom, schemaReq,
                       toast, editorVars, docsVars, execVars>>

\* the variables pane's onChange
EditVariables ==
    \E v \in VariablesTexts :
        /\ v # variables
        /\ variables' = v
        /\ UNCHANGED <<endpoints, currentEndpointId, endpoint, loadingSchema, inflight,
                       issued, nextId, schema, schemaFrom, schemaReq, toast, editorVars,
                       docsVars, executing, loading, response, responseStatus, runs>>

\* executeQuery up to its await (the Run button, disabled while loading)
executeQuery ==
    /\ ~loading
    /\ IF endpoint = "" \/ Trim(value) = <<>>
       THEN /\ toast' = "Error"
            /\ UNCHANGED <<loading, executing, runs>>
       ELSE IF Trim(variables) # <<>> /\ ~JSONparses(variables)
       THEN /\ toast' = "Invalid Variables"
            /\ loading' = FALSE
            /\ UNCHANGED <<executing, runs>>
       ELSE /\ runs < MaxRuns
            /\ loading' = TRUE
            /\ runs' = runs + 1
            /\ executing' = executing \cup
                   {[n |-> runs + 1, epId |-> currentEndpointId, url |-> endpoint,
                     query |-> value, variables |-> variables,
                     history |-> currentEndpoint.history]}
            /\ UNCHANGED toast
    /\ UNCHANGED <<endpoints, currentEndpointId, endpoint, loadingSchema, inflight, issued,
                   nextId, schema, schemaFrom, schemaReq, editorVars, docsVars,
                   variables, response, responseStatus>>

\* ExecutionResponse that saves whatever the status is
ExecutionResponse_savesAnyStatus ==
    \E x \in executing : \E o \in ExecutionOutcomes :
        /\ executing' = executing \ {x}
        /\ loading' = FALSE
        /\ IF o.kind = "reject"
           THEN /\ toast' = "Execution Error"
                /\ response' = R_error
                /\ UNCHANGED <<responseStatus, endpoints>>
           ELSE /\ response' = (IF o.errors THEN R_errors ELSE R_data)
                /\ responseStatus' = o.status
                /\ endpoints' = updateEndpointField(endpoints, x.epId, "history",
                                    addToHistory(x.query, x.variables, x.url, x.history))
                /\ toast' = IF o.errors THEN "GraphQL Errors" ELSE toast
        /\ UNCHANGED <<currentEndpointId, endpoint, loadingSchema, inflight, issued, nextId,
                       schema, schemaFrom, schemaReq, editorVars, docsVars, variables, runs>>

\* ExecutionResponse that saves into the endpoint current at completion
ExecutionResponse_savesToCurrent ==
    \E x \in executing : \E o \in ExecutionOutcomes :
        /\ executing' = executing \ {x}
        /\ loading' = FALSE
        /\ IF o.kind = "reject"
           THEN /\ toast' = "Execution Error"
                /\ response' = R_error
                /\ UNCHANGED <<responseStatus, endpoints>>
           ELSE /\ response' = (IF o.errors THEN R_errors ELSE R_data)
                /\ responseStatus' = o.status
                /\ endpoints' =
                       IF o.status >= 200 /\ o.status < 300
                       THEN updateEndpointField(endpoints, currentEndpointId, "history",
                                addToHistory(x.query, x.variables, x.url, x.history))
                       ELSE endpoints
                /\ toast' = IF o.errors THEN "GraphQL Errors" ELSE toast
        /\ UNCHANGED <<currentEndpointId, endpoint, loadingSchema, inflight, issued, nextId,
                       schema, schemaFrom, schemaReq, editorVars, docsVars, variables, runs>>

\* executeQuery from its await on: invocation x ends with outcome o.  The
\* closure of x holds the endpoint id, the URL, the query, the variables and
\* the history of the render in which it was started
ExecutionResponse ==
    \E x \in executing : \E o \in ExecutionOutcomes :
        /\ executing' = executing \ {x}
        /\ loading' = FALSE
        /\ IF o.kind = "reject"
           THEN /\ toast' = "Execution Error"
                /\ response' = R_error
                /\ UNCHANGED <<responseStatus, endpoints>>
           ELSE /\ response' = (IF o.errors THEN R_errors ELSE R_data)
                /\ responseStatus' = o.status
                /\ endpoints' =
                       IF o.status >= 200 /\ o.status < 300
                       THEN updateEndpointField(endpoints, x.epId, "history",
                                addToHistory(x.query, x.variables, x.url, x.history))
                       ELSE endpoints
                /\ toast' = IF o.errors THEN "GraphQL Errors" ELSE toast
        /\ UNCHANGED <<currentEndpointId, endpoint, loadingSchema, inflight, issued, nextId,
                       schema, schemaFrom, schemaReq, editorVars, docsVars, variables, runs>>

\* the entries of the history panel the user clicks: the newest and the oldest
LoadPositions(history) == {1, Len(history)} \cap (1..Len(history))

\* loadFromHistory(historyItem), and the effects that follow; the textarea
\* puts the caret at the end of a value set by the page
loadFromHistory ==
    \E k \in LoadPositions(currentEndpoint.history) :
        LET historyItem == currentEndpoint.history[k]
        IN /\ value' = historyItem.query
           /\ selectionStart' = Len(historyItem.query)
           /\ variables' = historyItem.variables
           /\ IF historyItem.endpoint # endpoint
              THEN /\ endpoint' = historyItem.endpoint
                   /\ endpoints' = updateCurrentEndpoint(historyItem.endpoint)
                   /\ fetchSchema(TRUE, historyItem.endpoint)
              ELSE /\ UNCHANGED <<endpoint, endpoints>>
                   /\ fetchSchema(FALSE, endpoint)
           /\ toast' = "History Loaded"
           /\ UNCHANGED <<currentEndpointId, nextId, schema, schemaFrom, schemaReq,
                          cursorPosition, suggestions, showSuggestions, selectedSuggestion,
                          threw, docsVars, executing, loading, response, responseStatus,
                          runs>>

\* clearHistory (Clear All, disabled while the history is empty)
clearHistory ==
    /\ Len(currentEndpoint.history) > 0
    /\ endpoints' = updateEndpointField(endpoints, currentEndpointId, "history", <<>>)
    /\ toast' = "History Cleared"
    /\ UNCHANGED <<currentEndpointId, endpoint, loadingSchema, inflight, issued, nextId,
                   schema, schemaFrom, schemaReq, editorVars, docsVars, execVars>>

-----------------------------------------------------------------------------
(* The documentation panel: the rendering of type references.              *)

\* layers of LIST/NON_NULL around the named type of a rendered reference
MaxLayers == 6
\* the type references of at most n layers around String or Country
TypeRefs(n) ==
    {[wrappers |-> w, kind |-> t.kind, name |-> t.name] :
        w \in UNION {[1..k -> {"LIST", "NON_NULL"}] : k \in 0..n}, t \in {StringT, CountryT}}

RECURSIVE renderType_bangFirst(_)
\* renderType that writes the `!` of a NON_NULL before the inner type
renderType_bangFirst(type) ==
    IF IsUndefined(type) THEN [err |-> TRUE, str |-> <<>>]
    ELSE IF KindOf(type) = "NON_NULL"
    THEN [err |-> renderType_bangFirst(OfType(type)).err,
          str |-> <<"!">> \o renderType_bangFirst(OfType(type)).str]
    ELSE IF KindOf(type) = "LIST"
    THEN [err |-> renderType_bangFirst(OfType(type)).err,
          str |-> <<"[">> \o renderType_bangFirst(OfType(type)).str \o <<"]">>]
    ELSE [err |-> FALSE, str |-> IF type.name # <<>> THEN type.name ELSE Unknown]

RECURSIVE renderType(_)
\* renderType of the page: [err, str]
renderType(type) ==
    IF IsUndefined(type) THEN [err |-> TRUE, str |-> <<>>]
    ELSE IF KindOf(type) = "NON_NULL"
    THEN [err |-> renderType(OfType(type)).err,
          str |-> renderType(OfType(type)).str \o <<"!">>]
    ELSE IF KindOf(type) = "LIST"
    THEN [err |-> renderType(OfType(type)).err,
          str |-> <<"[">> \o renderType(OfType(type)).str \o <<"]">>]
    ELSE [err |-> FALSE, str |-> IF type.name # <<>> THEN type.name ELSE Unknown]

\* the panel renders the type of a field or argument
RenderType ==
    \E t \in TypeRefs(MaxLayers) :
        /\ renderArg' = t
        /\ rendered' = renderType(t)
        /\ UNCHANGED <<editorVars, schema, endpoints, currentEndpointId, endpoint,
                       loadingSchema, inflight, issued, schemaFrom, schemaReq, nextId,
                       toast, execVars>>

-----------------------------------------------------------------------------
(* The state after the first render and its effects: the default endpoint, *)
(* the default query, and the first introspection request in flight.       *)

\* everything but the endpoints, which localStorage may hold
InitRest ==
    /\ value = DefaultQuery
    /\ selectionStart = Len(DefaultQuery)
    /\ cursorPosition = 0
    /\ suggestions = <<>>
    /\ showSuggestions = FALSE
    /\ selectedSuggestion = 0
    /\ threw = FALSE
    /\ schema = Null
    /\ currentEndpointId = 0
    /\ endpoint = U_countries
    /\ loadingSchema = TRUE
    /\ inflight = {[n |-> 1, url |-> U_countries]}
    /\ issued = 1
    /\ schemaFrom = ""
    /\ schemaReq = 0
    /\ nextId = 1
    /\ toast = ""
    /\ variables = V_default
    /\ executing = {}
    /\ loading = FALSE
    /\ response = ""
    /\ responseStatus = 0
    /\ runs = 0
    /\ renderArg = Undefined
    /\ rendered = [err |-> FALSE, str |-> <<>>]

\* the first visit: nothing in localStorage
Init ==
    /\ endpoints = <<EndpointConfig(0, DefaultName, U_countries, <<>>)>>
    /\ InitRest

\* a later visit: localStorage holds the default endpoint with the history of
\* earlier executions
InitRestored ==
    /\ \E n \in SavedLengths : endpoints = <<EndpointConfig(0, DefaultName, U_countries, SavedHistory(n))>>
    /\ InitRest

\* the query editor, with the schema the page hands it
NextEditor ==
    \/ TypeChar
    \/ Backspace
    \/ ClearAll
    \/ KeyEnterNewline
    \/ KeyTabIndent
    \/ KeyArrowDown
    \/ KeyArrowUp
    \/ KeyAccept
    \/ SuggestionClick
    \/ CloseDropdown
    \/ CaretLeft
    \/ CaretRight
    \/ SchemaInstalled
SpecEditor == Init /\ [][NextEditor]_vars

\* the page: endpoints and schema loading
NextPage ==
    \/ EditUrl
    \/ switchToEndpoint
    \/ addEndpoint
    \/ removeEndpoint
    \/ DocsButton
    \/ SchemaResponse
SpecPage == Init /\ [][NextPage]_vars

\* the page: execution and history, with the variables, the clearing of the
\* editor and the endpoint list
NextHistory ==
    \/ executeQuery
    \/ ExecutionResponse
    \/ loadFromHistory
    \/ clearHistory
    \/ EditVariables
    \/ ClearAll
    \/ switchToEndpoint
    \/ addEndpoint
    \/ removeEndpoint
SpecHistory == InitRestored /\ [][NextHistory]_vars

\* the page: every operation that edits the configuration of an endpoint
NextConfig ==
    \/ addHeader
    \/ removeHeader
    \/ updateHeader
    \/ EditUrl
    \/ executeQuery
    \/ ExecutionResponse
    \/ loadFromHistory
    \/ clearHistory
    \/ switchToEndpoint
    \/ addEndpoint
SpecConfig == Init /\ [][NextConfig]_vars

\* the documentation panel
NextDocs == RenderType
SpecDocs == Init /\ [][NextDocs]_vars

\* the page as a whole.  Its parts have only `schema` and the endpoints in
\* common, so the properties of each are checked on the part's specification
Next == NextEditor \/ NextPage \/ NextHistory \/ NextConfig \/ NextDocs
Spec == Init /\ [][Next]_vars

-----------------------------------------------------------------------------
(* Properties of the resolver, stated over the text and the schema of the  *)
(* editor: resolve(text, offset, schema) is getSuggestions.                *)

Labels(items) == [i \in 1..Len(items) |-> items[i].label]
LabelSet(items) == {items[i].label : i \in 1..Len(items)}
\* 1-based index of the first suggestion labelled l, 0 if none
IndexOfLabel(items, l) ==
    LET hits == {i \in 1..Len(items) : items[i].label = l}
    IN IF hits = {} THEN 0 ELSE CHOOSE i \in hits : \A j \in hits : i <= j
EndsWith(s, t) == Len(t) <= Len(s) /\ SubSeq(s, Len(s) - Len(t) + 1, Len(s)) = t

\* `{` minus `}` among the characters of s after the first i
Balance(s, i) ==
    CountChar(SubSeq(s, i + 1, Len(s)), "{") - CountChar(SubSeq(s, i + 1, Len(s)), "}")
\* the number of `{` in s that no later `}` of s closes
Depth(s) ==
    LET bs == {Balance(s, i) : i \in 0..Len(s)}
    IN CHOOSE m \in bs : \A b \in bs : b <= m

\* the root type the operation keyword selects, NullType when not declared
BaseTypeOf(keyword, sch) ==
    LET name == IF keyword = kw_mutation THEN sch.mutationType
                ELSE IF keyword = kw_subscription THEN sch.subscriptionType
                ELSE sch.queryType
    IN IF name = <<>> THEN NullType ELSE findTypeByName(sch, name)

\* the word a selection starts with, and whether nothing or one closed
\* argument list follows it
LeadingWord(t) == SubSeq(t, 1, SkipRun(t, 1, WordChars) - 1)
IsFieldSelection(t) ==
    LET rest == SubSeq(t, Len(LeadingWord(t)) + 1, Len(t))
    IN /\ LeadingWord(t) # <<>>
       /\ \/ rest = <<>>
          \/ rest[1] = "(" /\ rest[Len(rest)] = ")" /\ CountChar(rest, ")") = 1

\* the suggestions are exactly the fields of type whose name contains partial
SuggestsFieldsOf(r, type, partial) ==
    /\ ~r.err
    /\ LabelSet(r.items) =
           {type.fields[k].name : k \in {j \in 1..Len(type.fields) :
                                            fieldMatchesPartial(type.fields[j], partial)}}

\* partial is the name of a field of type, written out in full
NamesFieldOf(type, partial) ==
    \E k \in 1..Len(type.fields) : type.fields[k].name = partial

\* field is a field of the base type whose reference names a type with fields,
\* and partial is a word still in progress
NestedScopeHolds(field, partial, r, sch) ==
    (/\ field.type.kind # "MISSING"
     /\ HasFields(findTypeByName(sch, field.type.name))
     /\ ~NamesFieldOf(findTypeByName(sch, field.type.name), partial))
    => SuggestsFieldsOf(r, findTypeByName(sch, field.type.name), partial)

\* before is `<operation> { f [(args)] { <partial>` with nothing closed
NestedScopeAt(parts, before, sch) ==
    (/\ Len(parts) = 3
     /\ CountChar(before, "}") = 0
     /\ Trim(parts[1]) \in {kw_query, kw_mutation, kw_subscription}
     /\ IsFieldSelection(Trim(parts[2]))
     /\ Trim(parts[3]) = TrailingWord(parts[3])
     /\ HasFields(BaseTypeOf(Trim(parts[1]), sch)))
    => \A k \in 1..Len(BaseTypeOf(Trim(parts[1]), sch).fields) :
          BaseTypeOf(Trim(parts[1]), sch).fields[k].name = LeadingWord(Trim(parts[2]))
          => NestedScopeHolds(BaseTypeOf(Trim(parts[1]), sch).fields[k],
                              TrailingWord(parts[3]),
                              getSuggestions(before, Len(before), sch), sch)

\* C1: in every state, whenever the cursor is inside the still-open selection set of a field f
\* of the base type (the root type of the operation: query, mutation or
\* subscription), the suggestions are the fields of the named type f's
\* reference ends in whose names match the partial word (a word that is not
\* yet the full name of one of them)
C1_NestedPathResolution ==
    schema # Null
    => NestedScopeAt(Split(Substring(value, 0, selectionStart), "{"),
                     Substring(value, 0, selectionStart), schema)

\* the keywords that have line as a case-insensitive prefix and whose root type
\* the schema declares (query is always offered)
ExpectedKeywords(line, sch) ==
    SelectSeq(<<kw_query, kw_mutation, kw_subscription>>,
              LAMBDA kw : /\ StartsWith(kw, ToLowerCase(line))
                          /\ kw = kw_mutation => sch.mutationType # <<>>
                          /\ kw = kw_subscription => sch.subscriptionType # <<>>)

RootSuggestionsAt(before, sch) ==
    Depth(before) = 0
    => /\ ~getSuggestions(before, Len(before), sch).err
       /\ Labels(getSuggestions(before, Len(before), sch).items)
              = ExpectedKeywords(Trim(CurrentLine(before)), sch)

\* C2: whenever no `{` encloses the cursor, resolve returns exactly the
\* operation keywords that have the trimmed current line as a case-insensitive
\* prefix, mutation and subscription only when the schema declares them
C2_RootSuggestions ==
    \A pos \in 0..Len(value) :
        schema # Null => RootSuggestionsAt(Substring(value, 0, pos), schema)

\* C3: while no schema is installed, resolve returns the empty sequence without
\* an error at every cursor offset of the text, no handler has ended in an
\* error, and the dropdown is closed
C3_NoSchemaSafety ==
    schema = Null
    => /\ \A pos \in 0..Len(value) :
              getSuggestions(value, pos, schema) = [err |-> FALSE, items |-> <<>>]
       /\ ~threw
       /\ ~showSuggestions
\* the user has typed a nested selection while no schema is installed
C3_TypedWithoutSchema ==
    /\ schema = Null
    /\ value = Doc_nested
    /\ cursorPosition = Len(Doc_nested)
    /\ ~showSuggestions

\* C4: resolve ends in no error, at any cursor offset of the text, with any
\* schema the page has installed
C4_ResolveNeverRaises ==
    \A pos \in 0..Len(value) : ~getSuggestions(value, pos, schema).err

\* the last `(` before the cursor has no `)` after it
InsideUnclosedParen(before) == LastIndexOf(before, "(") > LastIndexOf(before, ")")

\* C5: whenever the cursor lies inside an argument list whose `(` is not closed
\* before the cursor, resolve ends in no error and returns no suggestion
C5_UnclosedParenSuppression ==
    \A pos \in 0..Len(value) :
        (schema # Null /\ InsideUnclosedParen(Substring(value, 0, pos)))
        => getSuggestions(value, pos, schema) = [err |-> FALSE, items |-> <<>>]

\* every item that names a field of type with arguments inserts `name(`
InsertsParen(items, type) ==
    \A i \in 1..Len(items) : \A k \in 1..Len(type.fields) :
        (type.fields[k].name = items[i].label /\ Len(type.fields[k].args) > 0)
        => /\ items[i].insertText = type.fields[k].name \o <<"(">>
           /\ ~EndsWith(items[i].insertText, <<" ", "{">>)
ArgumentInsertionAt(ctx, r) ==
    (~ctx.err /\ ~r.err /\ HasFields(ctx.type)) => InsertsParen(r.items, ctx.type)

\* C6: at every cursor offset within braces, every suggested field that
\* declares at least one argument has the insertText `name(`, which does not end
\* in ` {`, whatever its type
C6_ArgumentInsertion ==
    \A pos \in 0..Len(value) :
        (schema # Null /\ CountChar(Substring(value, 0, pos), "{") > 0)
        => ArgumentInsertionAt(getContextType(Substring(value, 0, pos), schema),
                               getSuggestions(value, pos, schema))
\* the dropdown offers country(code: ID!): Country, an object field with an argument
C6_CountryOffered ==
    /\ schema = CountriesSchema
    /\ DropdownOpen
    /\ \E i \in 1..Len(suggestions) :
          /\ suggestions[i].label = f_country
          /\ suggestions[i].insertText = f_country \o <<"(">>

\* the text of the example: query {\n  coun
Text_coun == OpenQuery \o <<"c", "o", "u", "n">>
\* the schema has a Query type with the fields countries and country
HasBothFields(sch) ==
    /\ sch # Null
    /\ HasFields(findTypeByName(sch, T_Query))
    /\ NamesFieldOf(findTypeByName(sch, T_Query), f_countries)
    /\ NamesFieldOf(findTypeByName(sch, T_Query), f_country)
BothInOrder(items, first, second) ==
    /\ IndexOfLabel(items, first) > 0
    /\ IndexOfLabel(items, first) < IndexOfLabel(items, second)

\* C7 as stated: resolve("query {\n  coun", 13, schema) yields both fields,
\* country before countries
C7_CountryBeforeCountries ==
    (value = Text_coun /\ HasBothFields(schema))
    => BothInOrder(getSuggestions(value, 13, schema).items, f_country, f_countries)
\* C7: resolve("query {\n  coun", 13, schema) yields both fields, countries
\* before country, which is their alphabetical order
C7_CountriesBeforeCountry ==
    (value = Text_coun /\ HasBothFields(schema))
    => /\ ~getSuggestions(value, 13, schema).err
       /\ BothInOrder(getSuggestions(value, 13, schema).items, f_countries, f_country)
\* the user has typed the text and the dropdown lists countries, then country
C7_BothListed ==
    /\ value = Text_coun
    /\ schema = CountriesSchema
    /\ DropdownOpen
    /\ Labels(suggestions) = <<f_countries, f_country>>
    /\ Labels(getSuggestions(value, 13, schema).items) = <<f_countries, f_country>>

\* a call of resolve with the inputs of the call that filled the dropdown
\* returns what that call returned
SecondCallAgrees(r) == r.err \/ r.items = suggestions

RECURSIVE Unrender(_)
\* the layers and the name a type signature is read back as
Unrender(str) ==
    IF str # <<>> /\ str[Len(str)] = "!"
    THEN [Unrender(SubSeq(str, 1, Len(str) - 1)) EXCEPT !.wrappers = <<"NON_NULL">> \o @]
    ELSE IF Len(str) >= 2 /\ str[1] = "[" /\ str[Len(str)] = "]"
    THEN [Unrender(SubSeq(str, 2, Len(str) - 1)) EXCEPT !.wrappers = <<"LIST">> \o @]
    ELSE [wrappers |-> <<>>, name |-> str]

\* C13: for a reference built from a named type in at most MaxLayers
\* LIST/NON_NULL layers, render ends without error in a signature that reads
\* back as the same layers, in the same order, around the same name; the
\* editor's getTypeString and the page's renderType return the same
C13_RenderMirrorsWrapping ==
    renderArg # Undefined
    => /\ ~rendered.err
       /\ Unrender(rendered.str) = [wrappers |-> renderArg.wrappers, name |-> renderArg.name]
       /\ getTypeString(renderArg) = rendered
\* NON_NULL(LIST(NON_NULL(String))) was rendered as [String!]!
C13_ExampleRendered ==
    /\ renderArg = NonNull(List(NonNull(StringT)))
    /\ rendered.str = <<"[">> \o T_String \o <<"!", "]", "!">>

\* the offset at which the run of word characters that ends at offset c starts
WordStartAt(text, c) ==
    CHOOSE k \in 0..c : /\ \A j \in (k + 1)..c : text[j] \in WordChars
                        /\ k = 0 \/ text[k] \notin WordChars
\* the step replaces the word in progress by the insertText of sug
AcceptedAs(sug) ==
    /\ value' = SubSeq(value, 1, WordStartAt(value, cursorPosition)) \o sug.insertText
                \o SubSeq(value, cursorPosition + 1, Len(value))
    /\ selectionStart' = WordStartAt(value, cursorPosition) + Len(sug.insertText)
    /\ ~showSuggestions'

ScopeIs(r, type, partial) == r.err \/ SuggestsFieldsOf(r, type, partial)

\* before is `query { f { ... } <partial>`: one selection set opened after the
\* operation's and closed again, the partial word not yet a field name
ClosedSubSelectionAt(parts, before, sch) ==
    (/\ Len(parts) = 3
     /\ CountChar(before, "}") = 1
     /\ Depth(before) = 1
     /\ Trim(parts[1]) = kw_query
     /\ HasFields(BaseTypeOf(kw_query, sch))
     /\ ~NamesFieldOf(BaseTypeOf(kw_query, sch), TrailingWord(CurrentLine(before))))
    => ScopeIs(getSuggestions(before, Len(before), sch), BaseTypeOf(kw_query, sch),
               TrailingWord(CurrentLine(before)))

\* C18: when a nested selection set was opened and closed again before the
\* cursor, as in `query { countries { name } cap`, the suggestions are those
\* of the innermost selection set still open, here the root operation type,
\* not those of the type of the closed sub-selection
C18_ClosedSubSelection ==
    schema # Null
    => ClosedSubSelectionAt(Split(Substring(value, 0, selectionStart), "{"),
                            Substring(value, 0, selectionStart), schema)

Keywords == {kw_query, kw_mutation, kw_subscription}
\* at depth 0 resolve ends without error and offers operation keywords only
RootAt(before, sch) ==
    Depth(before) = 0
    => /\ ~getSuggestions(before, Len(before), sch).err
       /\ LabelSet(getSuggestions(before, Len(before), sch).items) \subseteq Keywords

\* C19: the depth at the cursor is the number of `{` before it that no `}`
\* before it closes; wherever that depth is 0, also after a complete operation
\* was closed, resolve offers operation keywords and no field names
C19_DepthZeroIsRoot ==
    \A pos \in 0..Len(value) :
        schema # Null => RootAt(Substring(value, 0, pos), schema)

\* before is `query { <partial>`: one open brace, nothing closed
InOperationAt(parts, before, sch) ==
    (/\ Len(parts) = 2
     /\ CountChar(before, "}") = 0
     /\ Trim(parts[1]) = kw_query
     /\ Trim(parts[2]) = TrailingWord(parts[2])
     /\ HasFields(BaseTypeOf(kw_query, sch)))
    => ScopeIs(getSuggestions(before, Len(before), sch), BaseTypeOf(kw_query, sch),
               TrailingWord(parts[2]))

\* C20: when exactly one `{` encloses the cursor and nothing was closed, the
\* suggestions are the fields of the root operation type that match the word
\* in progress, also when that word is the complete name of a field
C20_InOperationScope ==
    schema # Null
    => InOperationAt(Split(Substring(value, 0, selectionStart), "{"),
                     Substring(value, 0, selectionStart), schema)

\* the field of the base type selected by word leads nowhere: word names no
\* field of it, or every field it names has a reference to a type without fields
Unresolvable(base, word, sch) ==
    \A k \in 1..Len(base.fields) :
        base.fields[k].name = word
        => /\ base.fields[k].type.kind # "MISSING"
           /\ ~HasFields(findTypeByName(sch, base.fields[k].type.name))

\* before is `query { f [(args)] { <partial>` with nothing closed, and f is
\* unresolvable from the query type
NoScopeAt(parts, before, sch) ==
    (/\ Len(parts) = 3
     /\ CountChar(before, "}") = 0
     /\ Trim(parts[1]) = kw_query
     /\ IsFieldSelection(Trim(parts[2]))
     /\ Trim(parts[3]) = TrailingWord(parts[3])
     /\ HasFields(BaseTypeOf(kw_query, sch))
     /\ Unresolvable(BaseTypeOf(kw_query, sch), LeadingWord(Trim(parts[2])), sch))
    => \/ getSuggestions(before, Len(before), sch).err
       \/ getSuggestions(before, Len(before), sch).items = <<>>

\* C21: when the field selected at depth 1 is not a field of the query type,
\* or its type has no fields, resolve (when it ends without an error) returns
\* the empty sequence inside its braces; it does not fall back to the fields
\* of the query type
C21_UnresolvablePathIsEmpty ==
    schema # Null
    => NoScopeAt(Split(Substring(value, 0, selectionStart), "{"),
                 Substring(value, 0, selectionStart), schema)

\* before is `<operation> { <partial>` with the operation mutation or
\* subscription, nothing closed and the partial word not yet a field name
RootScopeAt(parts, before, sch) ==
    (/\ Len(parts) = 2
     /\ CountChar(before, "}") = 0
     /\ Trim(parts[1]) \in {kw_mutation, kw_subscription}
     /\ Trim(parts[2]) = TrailingWord(parts[2]))
    => IF HasFields(BaseTypeOf(Trim(parts[1]), sch))
       THEN NamesFieldOf(BaseTypeOf(Trim(parts[1]), sch), TrailingWord(parts[2]))
            \/ SuggestsFieldsOf(getSuggestions(before, Len(before), sch),
                                BaseTypeOf(Trim(parts[1]), sch), TrailingWord(parts[2]))
       ELSE getSuggestions(before, Len(before), sch) = [err |-> FALSE, items |-> <<>>]

\* C22: inside the braces of a mutation (subscription) the suggestions are
\* the matching fields of the mutation (subscription) type the schema
\* declares, and there are none when the schema declares no such type
C22_MutationBaseScope ==
    schema # Null
    => RootScopeAt(Split(Substring(value, 0, selectionStart), "{"),
                   Substring(value, 0, selectionStart), schema)

\* before is `query { f(<args>) { <partial>`: f is the word before the first
\* `(`, the argument list runs to the last `)`, and after it come one `{` and
\* a partial word.  Then the suggestions are those of the type of f
ArgumentsSkippedAt(before, o, p, q, sch) ==
    (/\ o > 0 /\ p > o /\ q > p
     /\ Trim(SubSeq(before, 1, o - 1)) = kw_query
     /\ Trim(SubSeq(before, o + 1, p - 1)) # <<>>
     /\ Trim(SubSeq(before, o + 1, p - 1)) = LeadingWord(Trim(SubSeq(before, o + 1, p - 1)))
     /\ CountChar(SubSeq(before, q + 1, Len(before)), "{") = 1
     /\ CountChar(SubSeq(before, q + 1, Len(before)), "}") = 0
     /\ Trim(SubSeq(before, q + 1, LastIndexOf(before, "{") - 1)) = <<>>
     /\ Trim(SubSeq(before, LastIndexOf(before, "{") + 1, Len(before)))
            = TrailingWord(before)
     /\ HasFields(BaseTypeOf(kw_query, sch)))
    => \A k \in 1..Len(BaseTypeOf(kw_query, sch).fields) :
          BaseTypeOf(kw_query, sch).fields[k].name = Trim(SubSeq(before, o + 1, p - 1))
          => NestedScopeHolds(BaseTypeOf(kw_query, sch).fields[k], TrailingWord(before),
                              getSuggestions(before, Len(before), sch), sch)

\* C23: for a field written as name(args) before its `{`, the scope inside
\* the braces is the type of name, whatever the argument list contains
\* (argument names, values, input-object literals)
C23_ArgumentsNonSelecting ==
    schema # Null
    => ArgumentsSkippedAt(Substring(value, 0, selectionStart),
                          FirstIndexFrom(Substring(value, 0, selectionStart), "{", 1),
                          FirstIndexFrom(Substring(value, 0, selectionStart), "(", 1),
                          LastIndexOf(Substring(value, 0, selectionStart), ")"), schema)

\* kinds of types that have a selection set
Selectable == {"OBJECT", "INTERFACE", "UNION"}
\* every item that names an argument-less field of type inserts `name {` when
\* the named type its reference ends in is selectable and `name` when that
\* type is a scalar or an enum
OpensBlock(items, type) ==
    \A i \in 1..Len(items) : \A k \in 1..Len(type.fields) :
        (type.fields[k].name = items[i].label /\ Len(type.fields[k].args) = 0)
        => /\ type.fields[k].type.kind \in Selectable
                => items[i].insertText = type.fields[k].name \o <<" ", "{">>
           /\ type.fields[k].type.kind \in {"SCALAR", "ENUM"}
                => items[i].insertText = type.fields[k].name
BlockInsertionAt(ctx, r) ==
    (~ctx.err /\ ~r.err /\ HasFields(ctx.type)) => OpensBlock(r.items, ctx.type)

\* C24: at the cursor, every suggested field without arguments inserts its
\* name followed by ` {` when its type, under any number of LIST/NON_NULL
\* wrappers, is an OBJECT, INTERFACE or UNION, and its name alone when that
\* type is a scalar or an enum
C24_SelectableOpensBlock ==
    (schema # Null /\ CountChar(Substring(value, 0, selectionStart), "{") > 0)
    => BlockInsertionAt(getContextType(Substring(value, 0, selectionStart), schema),
                        getSuggestions(value, selectionStart, schema))

\* name contains, starts with p, case-insensitively
ContainsCI(name, p) == Includes(ToLowerCase(name), ToLowerCase(p))
StartsCI(name, p) == StartsWith(ToLowerCase(name), ToLowerCase(p))
\* items holds one suggestion for each field of type whose name contains p
\* and nothing else; names that start with p come before names that only
\* contain it, and within each group the labels are in alphabetical order
FilteredAndRanked(items, type, p) ==
    /\ Len(items) = Cardinality({k \in 1..Len(type.fields) : ContainsCI(type.fields[k].name, p)})
    /\ LabelSet(items) = {type.fields[k].name : k \in {j \in 1..Len(type.fields) :
                                                          ContainsCI(type.fields[j].name, p)}}
    /\ \A i \in 1..Len(items) : \A j \in (i + 1)..Len(items) :
          \/ StartsCI(items[i].label, p) /\ ~StartsCI(items[j].label, p)
          \/ /\ StartsCI(items[i].label, p) = StartsCI(items[j].label, p)
             /\ LocaleCompare(items[i].label, items[j].label) <= 0
FilterRankAt(ctx, r, p) ==
    (~ctx.err /\ ~r.err /\ HasFields(ctx.type)) => FilteredAndRanked(r.items, ctx.type, p)

\* C25: at the cursor, within braces and with the scope type T the walk ends
\* in, resolve returns exactly one suggestion for each field of T whose name
\* contains the trailing word of the current line case-insensitively, the
\* names that start with it first, each group in alphabetical order
C25_FilterAndRank ==
    (schema # Null /\ CountChar(Substring(value, 0, selectionStart), "{") > 0)
    => FilterRankAt(getContextType(Substring(value, 0, selectionStart), schema),
                    getSuggestions(value, selectionStart, schema),
                    TrailingWord(CurrentLine(Substring(value, 0, selectionStart))))
\* the dropdown lists, for `n` inside country(...) { }, name (which starts
\* with n) before continent and currency (which contain it)
C25_PrefixBeforeContains ==
    /\ schema = CountriesSchema
    /\ DropdownOpen
    /\ TrailingWord(CurrentLine(Substring(value, 0, selectionStart))) = <<"n">>
    /\ Labels(suggestions) = <<f_name, f_continent, f_currency>>
    /\ Labels(getSuggestions(value, selectionStart, schema).items) = Labels(suggestions)

\* C27: whenever the dropdown is shown, the list of suggestions is not empty
\* and the selected index is one of its positions, 0 <= selected < count, so
\* that suggestions[selected] is defined when Tab or Enter accepts it
C27_DropdownInvariant ==
    showSuggestions
    => /\ Len(suggestions) > 0
       /\ selectedSuggestion >= 0
       /\ selectedSuggestion < Len(suggestions)
\* the dropdown is shown with the last of three or more suggestions selected
\* (ArrowUp from the first one, or ArrowDown through the list)
C27_LastSelected ==
    /\ DropdownOpen
    /\ Len(suggestions) >= 3
    /\ selectedSuggestion = Len(suggestions) - 1

-----------------------------------------------------------------------------
(* Properties of the loading of the schema.                                *)

\* queryType and types are present and every type entry has a kind
WellFormedIntrospection(sch) ==
    /\ sch.queryType # <<>>
    /\ sch.hasTypes
    /\ \A i \in 1..Len(sch.types) : sch.types[i].kind # ""

\* C8: an introspection result without queryType or types, or with a type
\* entry without a kind, is never installed: the schema of the page is always
\* absent or well formed
C8_MalformedNeverInstalled ==
    schema # Null => WellFormedIntrospection(schema)

\* C9: a step that installs a schema installs the response to the request
\* issued last; the response to an older request is discarded
C9_StaleResponseDiscarded ==
    [][schemaReq' # schemaReq => schemaReq' = issued]_vars

\* C10: every step that changes the URL of the active endpoint (a switch of
\* endpoint or an edit of the URL) discards the schema, so that a schema the
\* page holds was always fetched from the active endpoint
C10_SchemaDiscardedOnChange ==
    [][endpoint' # endpoint => schema' = Null]_vars

\* C11: a step in which an introspection request ends in failure (transport
\* error, GraphQL errors, or no __schema in the answer; the notice raised is
\* "Schema Error") leaves the installed schema as it was and clears the
\* loading flag
C11_FailedLoadKeepsSchema ==
    [][(inflight' # inflight /\ inflight' \subseteq inflight /\ toast' = "Schema Error")
       => (schema' = schema /\ schemaFrom' = schemaFrom /\ loadingSchema' = FALSE)]_vars
\* a load has failed after the schema of the countries endpoint was installed
C11_FailedAfterLoaded ==
    /\ schema = CountriesSchema
    /\ schemaFrom = U_countries
    /\ endpoint # U_countries
    /\ toast = "Schema Error"
    /\ inflight = {}
    /\ ~loadingSchema

-----------------------------------------------------------------------------
(* Properties of the query history and of the endpoint configurations.     *)

\* the endpoints of the list, by id
EndpointIds(eps) == {eps[i].id : i \in 1..Len(eps)}
ById(eps, id) == eps[CHOOSE i \in 1..Len(eps) : eps[i].id = id]
\* the endpoints that are in the list before and after the step
Staying == EndpointIds(endpoints) \cap EndpointIds(endpoints')
\* the invocations of executeQuery that end in the step
Completing == executing \ executing'
IsPrefix(p, s) == Len(p) <= Len(s) /\ SubSeq(s, 1, Len(p)) = p
Without(history, it) == SelectSeq(history, LAMBDA h : h # it)
ItemOf(x) == HistoryItem(x.query, x.variables, x.url)

\* new is old with `it` put first and, beyond the cap, the entries at the
\* end (the oldest) dropped
AddedDroppingOldest(old, it, new) ==
    /\ new[1] = it
    /\ IsPrefix(Tail(new), Without(old, it))
    /\ (Len(new) < HistoryCap => Tail(new) = Without(old, it))

\* C15: the history of every endpoint holds at most 50 entries, and an
\* execution that adds to a history puts its entry first, keeps the others in
\* their order and, when that makes more than 50, drops the ones at the end,
\* which are the oldest (of the history the execution started with)
C15_HistoryCapped ==
    /\ [](\A i \in 1..Len(endpoints) : Len(endpoints[i].history) <= HistoryCap)
    /\ [][\A id \in Staying :
            (/\ ById(endpoints', id).history # ById(endpoints, id).history
             /\ ById(endpoints', id).history # <<>>)
            => \E x \in Completing :
                   AddedDroppingOldest(x.history, ItemOf(x), ById(endpoints', id).history)]_vars

\* C15: an execution on a history of 50 has put its entry first and dropped
\* the oldest one
C15_OldestDropped ==
    /\ runs > 0
    /\ executing = {}
    /\ \E i \in 1..Len(endpoints) :
           /\ Len(endpoints[i].history) = HistoryCap
           /\ endpoints[i].history[1].query = DefaultQuery
           /\ endpoints[i].history[2] = HistoryItem(SavedQuery(HistoryCap), V_default, U_countries)
           /\ endpoints[i].history[HistoryCap] = HistoryItem(SavedQuery(2), V_default, U_countries)

\* the step ends an execution whose request was answered with a status 200..299
Succeeded(x) ==
    /\ x \in Completing
    /\ response' # R_error
    /\ responseStatus' >= 200
    /\ responseStatus' < 300

\* C16: the history of an endpoint gets an entry only in a step that ends an
\* execution started on it with a status in 200..299 (with or without GraphQL
\* errors), and such a step puts the executed query first in the history of
\* that endpoint when it is still in the list; every other step of
\* executeQuery (rejected, aborted, failed in transport, non-2xx) leaves every
\* history as it is
C16_SavedOnSuccessOnly ==
    [][/\ \A id \in Staying :
            ById(endpoints', id).history # ById(endpoints, id).history
            => IF ById(endpoints', id).history = <<>>
               THEN Completing = {}
               ELSE \E x \in Completing : x.epId = id /\ Succeeded(x)
       /\ \A x \in Completing :
            (Succeeded(x) /\ x.epId \in Staying)
            => ById(endpoints', x.epId).history[1] = ItemOf(x)
       /\ (toast' \in {"Error", "Invalid Variables"} /\ toast' # toast)
            => \A id \in Staying : ById(endpoints', id).history = ById(endpoints, id).history]_vars

\* C16: a response with status 299 and GraphQL errors has been saved
C16_SavedWithErrors ==
    /\ toast = "GraphQL Errors"
    /\ response = R_errors
    /\ responseStatus = 299
    /\ runs = 1
    /\ executing = {}
    /\ currentEndpoint.history = <<HistoryItem(DefaultQuery, V_default, U_countries)>>

\* the endpoints whose headers, history, url or name the step changes
Touched == {id \in Staying : ById(endpoints', id) # ById(endpoints, id)}

\* C17: a step changes the headers, history, url and name of no endpoint but
\* the one that was current when its operation was initiated: the current one
\* for a handler, the one of its closure for an execution that ends
C17_EndpointIsolation ==
    [][IF Completing # {}
       THEN \A x \in Completing : Touched \subseteq {x.epId}
       ELSE Touched \subseteq {currentEndpointId}]_vars

\* C17: an execution started on the added endpoint was saved there and
\* nowhere else, while the default endpoint is the current one
C17_SavedToInitiator ==
    /\ Len(endpoints) = 2
    /\ currentEndpointId = 0
    /\ toast = "GraphQL Errors"
    /\ endpoints[1].history = <<>>
    /\ endpoints[2].history = <<HistoryItem(DefaultQuery, V_default, U_full)>>
    /\ endpoints[2].headers = DefaultHeaders

\* the entries of a history
Entries(history) == {history[i] : i \in 1..Len(history)}

\* C26: no step brings back an entry that Clear All removed: every entry of
\* the history of an endpoint after a step was in that history before the
\* step, or is the entry of an execution started on the endpoint that the step
\* completes; so after Clear All has emptied a history, an execution started
\* before it and completing after it adds its own entry at most
C26_ClearedStaysCleared ==
    [][\A id \in Staying :
          \A e \in Entries(ById(endpoints', id).history) :
              \/ e \in Entries(ById(endpoints, id).history)
              \/ \E x \in Completing : x.epId = id /\ e = ItemOf(x)]_vars
\* C28: after any sequence of addEndpoint, removeEndpoint and
\* switchToEndpoint from the default configuration, the list of endpoints is
\* not empty, its ids are distinct and currentEndpointId is the id of one of
\* its endpoints
C28_EndpointListInvariant ==
    /\ Len(endpoints) >= 1
    /\ \A i, j \in 1..Len(endpoints) : endpoints[i].id = endpoints[j].id => i = j
    /\ currentEndpointId \in EndpointIds(endpoints)
\* the default endpoint has been removed: the only endpoint left is an added
\* one, and it is current
C28_DefaultRemoved ==
    /\ Len(endpoints) = 1
    /\ endpoints[1].id # 0
    /\ currentEndpointId = endpoints[1].id
    /\ endpoint = endpoints[1].url
\* C29: loadingSchema is TRUE in every state in which an introspection
\* request is in flight, also when several requests overlap, and FALSE once
\* every request has completed
C29_LoadingTracksRequests == loadingSchema = (inflight # {})
\* no two entries of history have the same (query, variables, endpoint URL)
NoDuplicates(history) == Cardinality(Entries(history)) = Len(history)

\* C30: no history of an endpoint ever holds two entries of the same (query,
\* variables, endpoint URL) triple, and a step that completes an execution
\* with a status in 200..299 leaves its entry first in the history of the
\* endpoint it was started on, and nowhere else in it: re-running a recorded
\* query moves its entry to the front
C30_NoDuplicatesRecentFirst ==
    [][/\ \A id \in EndpointIds(endpoints) : NoDuplicates(ById(endpoints, id).history)
       /\ \A id \in EndpointIds(endpoints') : NoDuplicates(ById(endpoints', id).history)
       /\ \A x \in Completing :
            (Succeeded(x) /\ x.epId \in Staying)
            => LET h == ById(endpoints', x.epId).history
               IN /\ h[1] = ItemOf(x)
                  /\ \A i \in 2..Len(h) : h[i] # ItemOf(x)]_vars
\* the oldest of 50 recorded queries has been loaded and run again: its entry
\* is first, the newest of the others second, and the history has 50 entries
C30_OldestRerun ==
    /\ runs > 0
    /\ executing = {}
    /\ \E i \in 1..Len(endpoints) :
           /\ Len(endpoints[i].history) = HistoryCap
           /\ endpoints[i].history[1] = HistoryItem(SavedQuery(1), V_default, U_countries)
           /\ endpoints[i].history[2] = HistoryItem(SavedQuery(HistoryCap), V_default, U_countries)
           /\ endpoints[i].history[HistoryCap] = HistoryItem(SavedQuery(2), V_default, U_countries)
====
